---- MODULE Spec2Model ----
(***************************************************************************)
(* The interactive terrain of diahinh3d: the Terrain component (its mesh,  *)
(* the brush of modifyTerrain, the pointer handlers) and the App component *)
(* (brush settings, reset, the window's pointer-up listener).              *)
(*                                                                         *)
(* Numbers.  JavaScript numbers are modelled in fixed point, with the      *)
(* non-finite values kept apart:                                           *)
(*   lengths (x, z, brush.size)          in tenths of a world unit         *)
(*   brush.strength                      in tenths                         *)
(*   Math.sqrt's result                  in thousandths of a world unit    *)
(*   angles                              in tenths of a degree             *)
(*   Math.cos's result, the falloff      in thousandths                    *)
(*   heights (y) and displacements       in 1/10000 of a world unit        *)
(* The position attribute is a Float32Array: a stored height is rounded   *)
(* to MantissaBits significant bits, ties to even (Fround).                *)
(***************************************************************************)
EXTENDS Integers, Sequences, FiniteSets, TLC

\* ---------------------------------------------------------------- bounds
\* The grid.  The source has TERRAIN_SIZE = 100 and TERRAIN_SEGMENTS = 128
\* (16641 vertices, 0.78 apart); the model keeps a small grid whose spacing
\* the brush radii (1 .. 15) still straddle.
TERRAIN_SIZE == 10
TERRAIN_SEGMENTS == 2
\* Significant bits of a stored height (24 for a Float32Array).
MantissaBits == 12
\* Operations on the brush and the terrain (slider and button changes,
\* resets, runs of modifyTerrain) in one behaviour of the application.
MaxSteps == 3
\* Runs of modifyTerrain in one behaviour of the brush on its own.
MaxStrokes == 2

\* ------------------------------------------------------ program constants
\* noise2D(vertex.x / 40, vertex.z / 40) * 5
NOISE_SCALE == 40
NOISE_AMPLITUDE == 5
\* useState<BrushSettings>({size: 5, strength: 0.5, direction: 'up'}), in tenths
DEFAULT_SIZE == 50
DEFAULT_STRENGTH == 5
\* <ControlSlider name="size" min={1} max={15} step={0.5}>, in tenths
SIZE_MIN == 10
SIZE_MAX == 150
SIZE_STEP == 5
\* <ControlSlider name="strength" min={0.1} max={2} step={0.1}>, in tenths
STRENGTH_MIN == 1
STRENGTH_MAX == 20
STRENGTH_STEP == 1
\* Math.PI, in tenths of a degree
PI == 1800
\* event.buttons === 1: the primary button and no other
PRIMARY == 1

\* ------------------------------------------------------------ fixed point
\* The literal 1 of "(Math.cos(...) + 1) / 2", in thousandths.
ONE == 1000

Abs(n) == IF n < 0 THEN -n ELSE n
Max(a, b) == IF a >= b THEN a ELSE b

RECURSIVE Pow2(_)
Pow2(n) == IF n <= 0 THEN 1 ELSE 2 * Pow2(n - 1)

\* Number of bits of a > 0.
RECURSIVE BitLen(_)
BitLen(a) == IF a <= 0 THEN 0 ELSE 1 + BitLen(a \div 2)

\* Floor of the square root, by bisection on [lo, hi].
RECURSIVE ISqrtIn(_, _, _)
ISqrtIn(n, lo, hi) ==
    IF lo >= hi THEN lo
    ELSE LET mid == (lo + hi + 1) \div 2
         IN  IF mid * mid <= n THEN ISqrtIn(n, mid, hi) ELSE ISqrtIn(n, lo, mid - 1)
ISqrt(n) == ISqrtIn(n, 0, 46340)

\* The gap between neighbouring stored values at magnitude a.
Ulp(a) == Pow2(Max(0, BitLen(Abs(a)) - MantissaBits))

\* Float32Array store: round to MantissaBits significant bits, ties to even.
Fround(v) ==
    LET a   == Abs(v)
        q   == Ulp(a)
        lo  == (a \div q) * q
        rem == a - lo
        r   == IF 2 * rem < q THEN lo
               ELSE IF 2 * rem > q THEN lo + q
               ELSE IF (lo \div q) % 2 = 0 THEN lo ELSE lo + q
    IN  IF v < 0 THEN -r ELSE r

\* ------------------------------------------------- JavaScript number model
Fin(n) == [k |-> "fin", v |-> n]
NaN == [k |-> "nan", v |-> 0]
PosInf == [k |-> "inf", v |-> 1]
NegInf == [k |-> "inf", v |-> -1]
IsFin(a) == a.k = "fin"
Sign(n) == IF n < 0 THEN -1 ELSE IF n > 0 THEN 1 ELSE 0

FNeg(a) == IF a.k = "nan" THEN NaN ELSE [a EXCEPT !.v = -a.v]

FAdd(a, b) ==
    IF a.k = "nan" \/ b.k = "nan" THEN NaN
    ELSE IF a.k = "inf" /\ b.k = "inf" THEN (IF a.v = b.v THEN a ELSE NaN)
    ELSE IF a.k = "inf" THEN a
    ELSE IF b.k = "inf" THEN b
    ELSE Fin(a.v + b.v)

FSub(a, b) == FAdd(a, FNeg(b))

FMul(a, b) ==
    IF a.k = "nan" \/ b.k = "nan" THEN NaN
    ELSE IF a.k = "inf" \/ b.k = "inf"
         THEN (IF Sign(a.v) * Sign(b.v) = 0 THEN NaN
               ELSE [k |-> "inf", v |-> Sign(a.v) * Sign(b.v)])
    ELSE Fin(a.v * b.v)

\* a < b: false whenever either side is NaN.
FLess(a, b) ==
    IF a.k = "nan" \/ b.k = "nan" THEN FALSE
    ELSE IF a.k = "inf" /\ b.k = "inf" THEN a.v < b.v
    ELSE IF a.k = "inf" THEN a.v < 0
    ELSE IF b.k = "inf" THEN b.v > 0
    ELSE a.v < b.v

\* Math.sqrt of a squared length (tenths squared), in thousandths of a unit.
FSqrt(a) ==
    IF a.k = "nan" THEN NaN
    ELSE IF a.k = "inf" THEN (IF a.v > 0 THEN PosInf ELSE NaN)
    ELSE IF a.v < 0 THEN NaN
    ELSE Fin(ISqrt(a.v * 10000))

\* (s / size) * Math.PI, s in thousandths, size in tenths: tenths of a degree.
FRatioTimesPi(s, size) ==
    IF s.k = "nan" \/ size.k = "nan" THEN NaN
    ELSE IF s.k = "inf" /\ size.k = "inf" THEN NaN
    ELSE IF s.k = "inf" THEN [k |-> "inf", v |-> s.v * (IF size.v < 0 THEN -1 ELSE 1)]
    ELSE IF size.k = "inf" THEN Fin(0)
    ELSE IF size.v = 0 THEN (IF s.v = 0 THEN NaN ELSE [k |-> "inf", v |-> Sign(s.v)])
    ELSE Fin((s.v * PI) \div (size.v * 100))

\* cos at the multiples of 15 degrees, in thousandths.
CosTable == <<1000, 966, 866, 707, 500, 259, 0, -259, -500, -707, -866, -966, -1000>>

\* Math.cos of an angle in [0, PI] (tenths of a degree): linear between the
\* entries of CosTable.
CosDeg(a) ==
    LET i == a \div 150
        r == a % 150
    IN  IF i >= 12 THEN CosTable[13]
        ELSE CosTable[i + 1] + ((CosTable[i + 2] - CosTable[i + 1]) * r) \div 150

\* Math.cos: even, of period 2 * PI; NaN for NaN and the infinities.
FCos(a) ==
    IF a.k # "fin" THEN NaN
    ELSE LET r == Abs(a.v) % (2 * PI)
         IN  Fin(CosDeg(IF r > PI THEN 2 * PI - r ELSE r))

\* (c + 1) / 2 in thousandths.
FPlusOneHalved(c) == IF c.k # "fin" THEN c ELSE Fin((c.v + ONE) \div 2)

\* Float32Array store of a JavaScript number.
FStore(a) == IF a.k = "fin" THEN Fin(Fround(a.v)) ELSE a

\* A function as an explicit table (the same function: TLC then looks its
\* values up instead of evaluating the constructor's body on every use).
Table(f) == f @@ <<>>

\* ------------------------------------------------------------ the mesh
GridX1 == TERRAIN_SEGMENTS + 1
Vertices == 0 .. (GridX1 * GridX1 - 1)
Row(i) == i \div GridX1
Col(i) == i % GridX1

\* createNoise2D(): one smooth field per seed, values in [-1, 1] (thousandths).
\* u, v are the sample coordinates in tenths.
Noise2D(seed, u, v) ==
    ((((u + 20) * 31 + (v + 20) * 17 + seed * 389) * 7919) % 2001) - 1000

\* new THREE.PlaneGeometry(size, size, segments, segments) and
\* rotateX(-Math.PI / 2): vertex i = ix + gridX1 * iy lies at
\* (ix * segment_width - width_half, 0, iy * segment_height - height_half).
PlaneGeometry(size, segments) ==
    LET half == (size * 10) \div 2
        seg  == (size * 10) \div segments
    IN  Table([i \in Vertices |->
            [x |-> Fin(Col(i) * seg - half), y |-> Fin(0), z |-> Fin(Row(i) * seg - half)]])

\* positions.setY(i, y): the y component alone, stored as a float32.
SetY(vertex, y) == [vertex EXCEPT !.y = FStore(y)]

\* The loop of the geometry memo: y = noise2D(x / 40, z / 40) * 5.
Generate(seed) ==
    LET plane == PlaneGeometry(TERRAIN_SIZE, TERRAIN_SEGMENTS)
    IN  Table([i \in Vertices |->
            SetY(plane[i],
                 Fin(Noise2D(seed, plane[i].x.v \div NOISE_SCALE, plane[i].z.v \div NOISE_SCALE)
                     * NOISE_AMPLITUDE * 10))])

\* ------------------------------------------------- computeVertexNormals
NoNormal == [ok |-> FALSE, x |-> 0, y |-> 0, z |-> 0]
Vec(x, y, z) == [ok |-> TRUE, x |-> x, y |-> y, z |-> z]
VAdd(a, b) ==
    IF ~a.ok \/ ~b.ok THEN NoNormal ELSE Vec(a.x + b.x, a.y + b.y, a.z + b.z)

\* The index of PlaneGeometry: the cell (ix, iy) has the corners
\* a = ix + gridX1 * iy, b = ix + gridX1 * (iy + 1), c = b + 1, d = a + 1 and
\* the faces (a, b, d) and (b, c, d).
FaceIds == 0 .. (2 * TERRAIN_SEGMENTS * TERRAIN_SEGMENTS - 1)
Face(f) ==
    LET ix == (f \div 2) % TERRAIN_SEGMENTS
        iy == (f \div 2) \div TERRAIN_SEGMENTS
        a  == ix + GridX1 * iy
        b  == ix + GridX1 * (iy + 1)
    IN  IF f % 2 = 0 THEN <<a, b, a + 1>> ELSE <<b, b + 1, a + 1>>
Faces == Table([f \in FaceIds |-> Face(f)])

RECURSIVE SeqOfSet(_)
SeqOfSet(S) ==
    IF S = {} THEN <<>>
    ELSE LET m == CHOOSE x \in S : \A y \in S : x <= y
         IN  <<m>> \o SeqOfSet(S \ {m})

\* The faces that touch each vertex.
FacesAt ==
    Table([i \in Vertices |-> SeqOfSet({f \in FaceIds : \E j \in 1 .. 3 : Faces[f][j] = i})])

\* The face (pA, pB, pC): cb = pC - pB, ab = pA - pB, cb x ab.  x and z are
\* in tenths, y in 1/10000: the y component is scaled to the same unit.
FaceNormal(p, a, b, c) ==
    IF ~(IsFin(p[a].y) /\ IsFin(p[b].y) /\ IsFin(p[c].y)) THEN NoNormal
    ELSE LET cbx == p[c].x.v - p[b].x.v
             cby == p[c].y.v - p[b].y.v
             cbz == p[c].z.v - p[b].z.v
             abx == p[a].x.v - p[b].x.v
             aby == p[a].y.v - p[b].y.v
             abz == p[a].z.v - p[b].z.v
         IN  Vec(cby * abz - cbz * aby,
                 (cbz * abx - cbx * abz) * 1000,
                 cbx * aby - cby * abx)

RECURSIVE SumNormals(_, _, _)
SumNormals(fn, fs, j) ==
    IF j > Len(fs) THEN Vec(0, 0, 0) ELSE VAdd(fn[fs[j]], SumNormals(fn, fs, j + 1))

\* geom.computeVertexNormals(): per vertex, the sum of the normals of the
\* faces that touch it.  (normalizeNormals then scales each sum to length 1;
\* the model keeps the sum, which carries the direction.)
ComputeVertexNormals(p) ==
    LET fn == Table([f \in FaceIds |-> FaceNormal(p, Faces[f][1], Faces[f][2], Faces[f][3])])
    IN  Table([i \in Vertices |-> SumNormals(fn, FacesAt[i], 1)])

\* --------------------------------------------------------- modifyTerrain
\* dx * dx + dz * dz, the planar squared distance of a vertex to the point.
DistSq(vertex, point) ==
    LET dx == FSub(vertex.x, point.x)
        dz == FSub(vertex.z, point.z)
    IN  FAdd(FMul(dx, dx), FMul(dz, dz))

BrushSizeSq(brush) == Fin(brush.size * brush.size)

\* The falloff without its "+ 1".
FalloffWithoutOne(distSq, brush) ==
    LET c == FCos(FRatioTimesPi(FSqrt(distSq), Fin(brush.size)))
    IN  IF c.k # "fin" THEN c ELSE Fin(c.v \div 2)

\* (Math.cos((Math.sqrt(distSq) / brush.size) * Math.PI) + 1) / 2
Falloff(distSq, brush) ==
    FPlusOneHalved(FCos(FRatioTimesPi(FSqrt(distSq), Fin(brush.size))))

\* The displacement without its direction.
DisplacementAlwaysUp(distSq, brush) ==
    FMul(Fin(brush.strength), Falloff(distSq, brush))

\* brush.strength * falloff * (brush.direction === 'up' ? 1 : -1)
Displacement(distSq, brush) ==
    FMul(FMul(Fin(brush.strength), Falloff(distSq, brush)),
         Fin(IF brush.direction = "up" THEN 1 ELSE -1))

\* The test against the diameter: distSq < (2 * size) * (2 * size).
InFootprintOfDiameter(distSq, brush) ==
    FLess(distSq, Fin(4 * brush.size * brush.size))

\* The test written as "not (distSq > brushSizeSq)".
InFootprintNotGreater(distSq, brush) == ~FLess(BrushSizeSq(brush), distSq)

\* if (distSq < brushSizeSq)
InFootprint(distSq, brush) == FLess(distSq, BrushSizeSq(brush))

\* What one pass of the loop adds to a vertex's height (0: not touched).
Applied(vertex, point, brush) ==
    IF InFootprint(DistSq(vertex, point), brush)
    THEN Displacement(DistSq(vertex, point), brush)
    ELSE Fin(0)

\* A pass of the loop body that writes with setX: the new value lands in
\* the x component (a length, in tenths).
BrushVertexWithSetX(vertex, point, brush) ==
    LET y == FStore(FAdd(vertex.y, Displacement(DistSq(vertex, point), brush)))
    IN  IF InFootprint(DistSq(vertex, point), brush)
        THEN [vertex EXCEPT !.x = IF IsFin(y) THEN Fin(y.v \div 1000) ELSE y]
        ELSE vertex

\* One pass of the loop body over a vertex.
BrushVertex(vertex, point, brush) ==
    IF InFootprint(DistSq(vertex, point), brush)
    THEN SetY(vertex, FAdd(vertex.y, Displacement(DistSq(vertex, point), brush)))
    ELSE vertex

\* The loop of modifyTerrain over the position attribute.
BrushPositions(p, point, brush) ==
    Table([i \in Vertices |-> BrushVertex(p[i], point, brush)])

\* useState<BrushSettings>({size: 5, strength: 0.5, direction: 'up'})
InitialBrush == [size |-> DEFAULT_SIZE, strength |-> DEFAULT_STRENGTH, direction |-> "up"]

\* ------------------------------------------------------------------ state
VARIABLES
    brush,       \* App: useState<BrushSettings>
    terrainKey,  \* App: useState(0), the key of <Terrain>
    enabled,     \* controlsRef.current.enabled
    seed,        \* Terrain: the field createNoise2D() returned
    positions,   \* Terrain: geometry.attributes.position
    normals,     \* Terrain: geometry.attributes.normal
    buttons,     \* the mouse: the buttons held (the next event's event.buttons)
    ev,          \* history: the last event and the runs of modifyTerrain in it
    last,        \* history: the last run of modifyTerrain on this mesh
    trail,       \* history: the positions before each of the last two runs
    steps        \* history: operations on the brush and the terrain so far

vars == <<brush, terrainKey, enabled, seed, positions, normals, buttons, ev,
          last, trail, steps>>

NoStroke ==
    [done |-> FALSE, point |-> [x |-> Fin(0), z |-> Fin(0)], brush |-> InitialBrush,
     applied |-> [i \in Vertices |-> Fin(0)]]
NoEvent == [kind |-> "none", onTerrain |-> FALSE, applied |-> 0]
Event(kind, onTerrain, applied) ==
    [kind |-> kind, onTerrain |-> onTerrain, applied |-> applied]

\* ------------------------------------------------------------ App: the UI
\* The value of an <input type="range">: a decimal string "whole.frac".
\* The browser keeps it on the slider's ticks, min + k * step <= max.
SliderTicks(min, max, step) == {min + k * step : k \in 0 .. ((max - min) \div step)}
RangeValue(tenths) == [whole |-> tenths \div 10, frac |-> tenths % 10]
\* parseInt in place of parseFloat: the fraction is dropped.
ParseWholeOnly(value) == value.whole * 10

ParseFloat(value) == value.whole * 10 + value.frac

\* The ticks a behaviour of the model moves a slider to: both ends and the
\* default.
UserTicks(min, max, step, default) ==
    {t \in SliderTicks(min, max, step) : t = min \/ t = max \/ t = default}

SizeValues == {RangeValue(t) : t \in UserTicks(SIZE_MIN, SIZE_MAX, SIZE_STEP, DEFAULT_SIZE)}
StrengthValues ==
    {RangeValue(t) : t \in UserTicks(STRENGTH_MIN, STRENGTH_MAX, STRENGTH_STEP, DEFAULT_STRENGTH)}

\* setBrush(prev => ({...prev, [name]: parseFloat(value)}))
BrushChanged(prev, name, value) == [prev EXCEPT ![name] = ParseFloat(value)]

\* setBrush(prev => ({...prev, direction}))
DirectionSet(prev, direction) == [prev EXCEPT !.direction = direction]

TerrainUnchanged == UNCHANGED <<seed, positions, normals, last, trail>>

handleBrushChange(name, value) ==
    /\ steps < MaxSteps
    /\ steps' = steps + 1
    /\ brush' = BrushChanged(brush, name, value)
    /\ brush' # brush
    /\ ev' = Event("change", FALSE, 0)
    /\ UNCHANGED <<terrainKey, enabled, buttons>>
    /\ TerrainUnchanged

setDirection(direction) ==
    /\ steps < MaxSteps
    /\ steps' = steps + 1
    /\ brush' = DirectionSet(brush, direction)
    /\ brush' # brush
    /\ ev' = Event("click", FALSE, 0)
    /\ UNCHANGED <<terrainKey, enabled, buttons>>
    /\ TerrainUnchanged

\* No call of computeVertexNormals.
StaleNormals(old, p) == old

\* The normal attribute after geom.computeVertexNormals().
RecomputedNormals(old, p) == ComputeVertexNormals(p)

\* The noise fields createNoise2D() returns in the model.
Seeds == {0, 1}

\* resetTerrain: the key changes, <Terrain> is mounted anew with a fresh
\* noise field, a fresh geometry and its normals.
resetTerrain ==
    /\ steps < MaxSteps
    /\ steps' = steps + 1
    /\ terrainKey' = terrainKey + 1
    /\ \E s \in Seeds :
          /\ seed' = s
          /\ LET geom == Generate(s)
             IN  /\ positions' = geom
                 /\ normals' = RecomputedNormals(normals, geom)
    /\ last' = NoStroke
    /\ trail' = <<>>
    /\ ev' = Event("click", FALSE, 0)
    /\ UNCHANGED <<brush, enabled, buttons>>

\* -------------------------------------------------- Terrain: the handlers
\* modifyTerrain(event) with the brush prop b: meshRef.current and
\* event.point are set whenever a pointer event reaches the mesh, so the
\* early returns are never taken.
modifyTerrain(point, b) ==
    /\ steps < MaxSteps
    /\ steps' = steps + 1
    /\ LET after == BrushPositions(positions, point, b)
       IN  /\ positions' = after
           /\ normals' = RecomputedNormals(normals, after)
    /\ last' = [done |-> TRUE, point |-> point, brush |-> b,
                applied |-> [i \in Vertices |-> Applied(positions[i], point, b)]]
    /\ UNCHANGED seed

\* controlsRef.current.enabled = false
EnabledAfterPointerDown(e) == FALSE

\* handlePointerDown: disable the orbit controls, then modifyTerrain.
handlePointerDown(point) ==
    /\ enabled' = EnabledAfterPointerDown(enabled)
    /\ modifyTerrain(point, brush)
    /\ UNCHANGED trail

\* if (event.buttons !== 0)
BrushesOnAnyButton(b) == b # 0

\* if (event.buttons === 1)
BrushesOnMove(b) == b = PRIMARY

\* handlePointerMove: modifyTerrain while the primary button alone is held.
handlePointerMove(point, b) ==
    /\ enabled' = enabled
    /\ IF BrushesOnMove(b)
       THEN /\ modifyTerrain(point, brush)
            /\ UNCHANGED trail
            /\ ev' = Event("pointermove", TRUE, 1)
       ELSE /\ TerrainUnchanged
            /\ UNCHANGED steps
            /\ ev' = Event("pointermove", TRUE, 0)

\* A listener that leaves the controls as they are.
EnabledLeftAsIs(e) == e

\* handlePointerUp, the window's listener:
\* if (controlsRef.current && !controlsRef.current.enabled) enabled = true
EnabledAfterPointerUp(e) == IF ~e THEN TRUE ELSE e

\* ------------------------------------------------------ the pointer events
\* event.point, where the pointer's ray meets the mesh: the middle vertex,
\* and 2.5 from it along x.
MiddleVertex == (GridX1 * GridX1) \div 2
PointAt(dx) ==
    LET plane == PlaneGeometry(TERRAIN_SIZE, TERRAIN_SEGMENTS)
    IN  [x |-> Fin(plane[MiddleVertex].x.v + dx), z |-> plane[MiddleVertex].z]
TerrainPoints == {PointAt(0), PointAt(25)}

\* event.buttons: primary (1), secondary (2), both (3).
ButtonMasks == {1, 2, 3}

\* A button goes down while none is held: pointerdown.
PointerDownOnTerrain ==
    /\ buttons = 0
    /\ \E b \in {1, 2}, point \in TerrainPoints :
          /\ buttons' = b
          /\ handlePointerDown(point)
          /\ ev' = Event("pointerdown", TRUE, 1)
    /\ UNCHANGED <<brush, terrainKey>>

\* pointerdown elsewhere (the sky, the panel): no handler of Terrain runs.
PointerDownElsewhere ==
    /\ buttons = 0
    /\ \E b \in {1, 2} :
          /\ buttons' = b
          /\ ev' = Event("pointerdown", FALSE, 0)
    /\ UNCHANGED <<brush, terrainKey, enabled, steps>>
    /\ TerrainUnchanged

\* pointermove over the terrain; while a button is held, a further button
\* going down or up is reported by a pointermove too.
PointerMoveOnTerrain ==
    /\ \E b \in ButtonMasks \cup {0}, point \in TerrainPoints :
          /\ (buttons = 0) = (b = 0)
          /\ buttons' = b
          /\ handlePointerMove(point, b)
    /\ UNCHANGED <<brush, terrainKey>>

PointerMoveElsewhere ==
    /\ \E b \in ButtonMasks \cup {0} :
          /\ (buttons = 0) = (b = 0)
          /\ buttons' = b
          /\ ev' = Event("pointermove", FALSE, 0)
    /\ UNCHANGED <<brush, terrainKey, enabled, steps>>
    /\ TerrainUnchanged

\* The last button goes up, anywhere in the window: pointerup.
PointerUp ==
    /\ buttons # 0
    /\ buttons' = 0
    /\ enabled' = EnabledAfterPointerUp(enabled)
    /\ ev' = Event("pointerup", FALSE, 0)
    /\ UNCHANGED <<brush, terrainKey, steps>>
    /\ TerrainUnchanged

\* ------------------------------------------------------- the application
ZeroNormals == [i \in Vertices |-> Vec(0, 0, 0)]

Init ==
    /\ brush = InitialBrush
    /\ terrainKey = 0
    /\ enabled = TRUE
    /\ seed \in Seeds
    /\ positions = Generate(seed)
    /\ normals = RecomputedNormals(ZeroNormals, Generate(seed))
    /\ buttons = 0
    /\ ev = NoEvent
    /\ last = NoStroke
    /\ trail = <<>>
    /\ steps = 0

SizeSlider == \E value \in SizeValues : handleBrushChange("size", value)
StrengthSlider == \E value \in StrengthValues : handleBrushChange("strength", value)
DirectionButton == \E d \in {"up", "down"} : setDirection(d)

Next ==
    \/ SizeSlider
    \/ StrengthSlider
    \/ DirectionButton
    \/ resetTerrain
    \/ PointerDownOnTerrain
    \/ PointerDownElsewhere
    \/ PointerMoveOnTerrain
    \/ PointerMoveElsewhere
    \/ PointerUp

Spec == Init /\ [][Next]_vars

\* -------------------------------------------------- the brush on its own
\* modifyTerrain as a function of its inputs: any brush of the samples, in
\* either direction, at any point: on the terrain, beyond its edge, far
\* outside it, or not finite.
BrushSamples ==
    {[size |-> DEFAULT_SIZE, strength |-> DEFAULT_STRENGTH, direction |-> "up"],
     [size |-> SIZE_MAX, strength |-> STRENGTH_MAX, direction |-> "up"],
     [size |-> SIZE_MIN, strength |-> STRENGTH_MIN, direction |-> "up"]}

HalfExtent == (TERRAIN_SIZE * 10) \div 2
OutsidePoints ==
    {[x |-> Fin(HalfExtent + 30), z |-> Fin(0)],
     [x |-> Fin(HalfExtent + 200), z |-> Fin(0 - HalfExtent - 200)]}
NonFinitePoints ==
    {[x |-> NaN, z |-> Fin(0)], [x |-> PosInf, z |-> Fin(0)], [x |-> Fin(0), z |-> NegInf]}
AnyPoints == TerrainPoints \cup OutsidePoints \cup NonFinitePoints

\* The last two runs: the positions before each, its point and its brush.
Recorded(tr, point, b) ==
    LET entry == [before |-> positions, point |-> point, brush |-> b]
    IN  IF Len(tr) < 2 THEN Append(tr, entry) ELSE <<tr[2], entry>>

InitBrush ==
    /\ brush \in BrushSamples
    /\ terrainKey = 0
    /\ enabled = TRUE
    /\ seed \in Seeds
    /\ positions = Generate(seed)
    /\ normals = RecomputedNormals(ZeroNormals, Generate(seed))
    /\ buttons = 0
    /\ ev = NoEvent
    /\ last = NoStroke
    /\ trail = <<>>
    /\ steps = 0

ApplyBrush ==
    /\ steps < MaxStrokes
    /\ \E point \in AnyPoints, d \in {"up", "down"} :
          LET b == DirectionSet(brush, d)
          IN  /\ brush' = b
              /\ modifyTerrain(point, b)
              /\ trail' = Recorded(trail, point, b)
    /\ UNCHANGED <<terrainKey, enabled, buttons, ev>>

SpecBrush == InitBrush /\ [][ApplyBrush]_vars

\* ================================================================ claims
Plane == PlaneGeometry(TERRAIN_SIZE, TERRAIN_SEGMENTS)
Before == trail[Len(trail)].before
FinitePoint(point) == IsFin(point.x) /\ IsFin(point.z)
HasNaN(point) == point.x.k = "nan" \/ point.z.k = "nan"

\* The planar squared distance of vertex i of the grid to a finite point.
PlanarDistSq(i, point) ==
    (Plane[i].x.v - point.x.v) * (Plane[i].x.v - point.x.v)
    + (Plane[i].z.v - point.z.v) * (Plane[i].z.v - point.z.v)

\* d * d >= R * R for vertex i: the distance is infinite or at least R.
AtOrBeyondRadius(i, point, b) ==
    /\ ~HasNaN(point)
    /\ (FinitePoint(point) => PlanarDistSq(i, point) >= b.size * b.size)

Magnitude(a) == Abs(a.v)

\* C1: over every sequence of brush applications, every vertex's x and z
\* equal their values at construction (those of the plane geometry).
C1_TopologyFixed ==
    \A i \in Vertices :
        positions[i].x = Plane[i].x /\ positions[i].z = Plane[i].z

\* C1 witness: two brush applications have run and heights have changed.
C1_Witness ==
    /\ Len(trail) = 2
    /\ \E i \in Vertices : positions[i].y # trail[1].before[i].y
    /\ \E i \in Vertices : positions[i].y # trail[2].before[i].y

\* C2: in one brush application every vertex at planar distance d with
\* d * d >= R * R keeps its height, also for a center outside the terrain;
\* if no vertex is inside the footprint the positions do not change at all.
C2_OutsideFootprintUnchanged ==
    last.done =>
        /\ \A i \in Vertices :
              AtOrBeyondRadius(i, last.point, last.brush)
                  => positions[i].y = Before[i].y
        /\ (\A i \in Vertices : AtOrBeyondRadius(i, last.point, last.brush))
              => positions = Before

\* C2 witness: a center beyond the terrain's edge whose footprint reaches
\* some vertices (their heights change) and misses others.
C2_Witness ==
    /\ last.done
    /\ FinitePoint(last.point)
    /\ last.point.x.v > HalfExtent
    /\ \E i \in Vertices : positions[i].y # Before[i].y
    /\ \E i \in Vertices : AtOrBeyondRadius(i, last.point, last.brush)

\* The last two applications: 'up', then 'down', same point, size, strength.
UpThenDown ==
    /\ Len(trail) = 2
    /\ trail[1].brush.direction = "up"
    /\ trail[2].brush = DirectionSet(trail[1].brush, "down")
    /\ trail[2].point = trail[1].point

\* C3 as stated: after 'up' then 'down' every height is exactly its value
\* before the two applications.
C3_ExactCancellation ==
    UpThenDown => \A i \in Vertices : positions[i].y = trail[1].before[i].y

\* C3 as amended: after 'up' then 'down' every height is finite and within
\* two rounding units (at the largest of the heights before, between and
\* after) of its value before; a vertex outside the footprint is exact.
C3_CancellationUpToRounding ==
    UpThenDown =>
        \A i \in Vertices :
            LET y0  == trail[1].before[i].y
                mid == trail[2].before[i].y
                y   == positions[i].y
            IN  /\ IsFin(y)
                /\ Abs(y.v - y0.v)
                      <= 2 * Ulp(Max(Abs(y0.v), Max(Abs(mid.v), Abs(y.v))))
                /\ AtOrBeyondRadius(i, trail[1].point, trail[1].brush) => y = y0

\* C3 witness: 'up' then 'down' at a point whose footprint holds a vertex
\* (the 'up' raised it, the 'down' lowered it again).
C3_Witness ==
    /\ UpThenDown
    /\ \E i \in Vertices :
          /\ trail[2].before[i].y.v > trail[1].before[i].y.v
          /\ positions[i].y.v < trail[2].before[i].y.v

\* C4: in every state between calls the normals are those of the current
\* positions: after generation, after a reset, after every brush application.
C4_NormalsCurrent == normals = ComputeVertexNormals(positions)

\* C4 witness: a brush application has changed the heights and the normals.
C4_Witness ==
    /\ last.done
    /\ ev.applied = 1
    /\ positions # Generate(seed)
    /\ normals # ComputeVertexNormals(Generate(seed))

\* The displacement the loop applies to a vertex at distance d (tenths)
\* from the point.
AppliedAt(d, b) ==
    Applied([x |-> Fin(d), y |-> Fin(0), z |-> Fin(0)], [x |-> Fin(0), z |-> Fin(0)], b)

\* C5: for one brush application the magnitude of the displacement does not
\* increase with the distance d over 0 .. R, is the strength at d = 0 and 0
\* at d = R: for the distances of the grid's vertices in the last
\* application, and for every distance in tenths under the current brush.
C5_FalloffMonotone ==
    /\ LET m == Table([d \in 0 .. brush.size |-> Magnitude(AppliedAt(d, brush))])
       IN  /\ \A d \in 0 .. (brush.size - 1) : m[d] >= m[d + 1]
           /\ m[0] = brush.strength * ONE
           /\ m[brush.size] = 0
    /\ (last.done /\ FinitePoint(last.point)) =>
          LET dd == Table([i \in Vertices |-> PlanarDistSq(i, last.point)])
              mm == Table([i \in Vertices |-> Magnitude(last.applied[i])])
              rr == last.brush.size * last.brush.size
          IN  \A i \in Vertices :
                  /\ dd[i] = 0 => mm[i] = last.brush.strength * ONE
                  /\ dd[i] >= rr => mm[i] = 0
                  /\ \A j \in Vertices :
                        (dd[i] <= dd[j] /\ dd[j] <= rr) => mm[i] >= mm[j]

\* C5 witness: one application displaced the vertex at its center by the
\* strength and a vertex further in the footprint by less, but not by 0.
C5_Witness ==
    /\ last.done
    /\ FinitePoint(last.point)
    /\ \E i, j \in Vertices :
          /\ PlanarDistSq(i, last.point) = 0
          /\ PlanarDistSq(j, last.point) > 0
          /\ Magnitude(last.applied[j]) > 0
          /\ Magnitude(last.applied[j]) < Magnitude(last.applied[i])

\* C6: a brush application at a point with a non-finite x or z leaves every
\* height as it was, and every height finite.
C6_NonFiniteNoOp ==
    (last.done /\ ~FinitePoint(last.point)) =>
        \A i \in Vertices :
            positions[i].y = Before[i].y /\ IsFin(positions[i].y)

\* C6 witness: an application at a NaN point on a terrain an earlier
\* application has already raised or lowered.
C6_Witness ==
    /\ last.done
    /\ last.point.x = NaN
    /\ Len(trail) = 2
    /\ trail[2].before # trail[1].before

\* C7: after any sequence of slider changes, direction clicks and resets the
\* brush, and the brush every application ran with, has size > 0,
\* strength > 0 and a direction of 'up' or 'down'.
C7_BrushPositive ==
    /\ brush.size > 0 /\ brush.strength > 0 /\ brush.direction \in {"up", "down"}
    /\ last.done =>
          /\ last.brush.size > 0
          /\ last.brush.strength > 0
          /\ last.brush.direction \in {"up", "down"}

\* C7 witness: an application ran with the strength slider at its minimum.
C7_Witness ==
    /\ last.done
    /\ last.brush.strength = STRENGTH_MIN
    /\ last.brush # InitialBrush

\* C8 as stated: a pointer-move over the terrain brushes exactly once when
\* any button is held, and not at all when none is.
C8_MoveWithAnyButton ==
    (ev.kind = "pointermove" /\ ev.onTerrain) =>
        ev.applied = (IF buttons # 0 THEN 1 ELSE 0)

\* C8 as amended: a pointer-move over the terrain brushes exactly once when
\* the primary button and no other is held (event.buttons === 1), and not
\* at all otherwise.
C8_MoveWithPrimaryOnly ==
    (ev.kind = "pointermove" /\ ev.onTerrain) =>
        /\ ev.applied = (IF buttons = PRIMARY THEN 1 ELSE 0)
        /\ ev.applied = 1 => last.done

\* C8 witness: a pointer-move over the terrain with the primary button held
\* has brushed.
C8_Witness ==
    /\ ev.kind = "pointermove"
    /\ ev.onTerrain
    /\ buttons = PRIMARY
    /\ ev.applied = 1
    /\ positions # Generate(seed)

\* C9: no brush application happens while the orbit controls are enabled.
C9_BrushOnlyWhileDisabled == ev.applied = 1 => ~enabled

\* C10: only a pointer-down on the terrain disables the controls, every
\* pointer-up leaves them enabled, and they are disabled only while a
\* button is held.
C10_DisabledOnlyDuringDrag ==
    [][/\ (enabled /\ ~enabled') => (ev'.kind = "pointerdown" /\ ev'.onTerrain)
       /\ ev'.kind = "pointerup" => enabled'
       /\ ~enabled' => buttons' # 0]_vars

\* C10 witness: the controls are disabled in the middle of a drag that
\* began on the terrain.
C10_Witness ==
    /\ ~enabled
    /\ ev.kind = "pointermove"
    /\ buttons # 0

====
